---- MODULE Spec2Model ----
(***************************************************************************)
(* METAR/SPECI report decoder of condao_weather_app (metar_parser.py).     *)
(* A report text is a TLA+ string; Len, SubSeq and \o act on it character  *)
(* by character.  Optional values (Python's None) are sequences: <<>> is    *)
(* None and <<v>> is the value v.                                           *)
(***************************************************************************)
EXTENDS Integers, Sequences, FiniteSets, TLC

VARIABLES text, typed, pc, record, metars

vars == <<text, typed, pc, record, metars>>

None == <<>>
Some(v) == <<v>>

\* ------------------------------------------------------------ characters

Char(s, i) == SubSeq(s, i, i)

Digits == {"0", "1", "2", "3", "4", "5", "6", "7", "8", "9"}
UpperLetters == {"A", "B", "C", "D", "E", "F", "G", "H", "I", "J", "K", "L", "M",
                 "N", "O", "P", "Q", "R", "S", "T", "U", "V", "W", "X", "Y", "Z"}
LowerLetters == {"a", "b", "c", "d", "e", "f", "g", "h", "i", "j", "k", "l", "m",
                 "n", "o", "p", "q", "r", "s", "t", "u", "v", "w", "x", "y", "z"}
Whitespace == {" ", "\t", "\n"}

\* \d of the re module
IsDigit(c) == c \in Digits
\* \w of the re module: letters, digits and the underscore
IsWord(c) == c \in Digits \cup UpperLetters \cup LowerLetters \cup {"_"}
IsSpace(c) == c \in Whitespace

DigitVal(c) ==
  CASE c = "0" -> 0 [] c = "1" -> 1 [] c = "2" -> 2 [] c = "3" -> 3 [] c = "4" -> 4
    [] c = "5" -> 5 [] c = "6" -> 6 [] c = "7" -> 7 [] c = "8" -> 8 [] c = "9" -> 9

UpperChar(c) ==
  CASE c = "a" -> "A" [] c = "b" -> "B" [] c = "c" -> "C" [] c = "d" -> "D"
    [] c = "e" -> "E" [] c = "f" -> "F" [] c = "g" -> "G" [] c = "h" -> "H"
    [] c = "i" -> "I" [] c = "j" -> "J" [] c = "k" -> "K" [] c = "l" -> "L"
    [] c = "m" -> "M" [] c = "n" -> "N" [] c = "o" -> "O" [] c = "p" -> "P"
    [] c = "q" -> "Q" [] c = "r" -> "R" [] c = "s" -> "S" [] c = "t" -> "T"
    [] c = "u" -> "U" [] c = "v" -> "V" [] c = "w" -> "W" [] c = "x" -> "X"
    [] c = "y" -> "Y" [] c = "z" -> "Z" [] OTHER -> c

\* str.upper()
RECURSIVE upper(_)
upper(s) == IF s = "" THEN "" ELSE UpperChar(Char(s, 1)) \o upper(SubSeq(s, 2, Len(s)))

\* str.strip(): leading and trailing whitespace removed
RECURSIVE lstrip(_)
lstrip(s) == IF s # "" /\ IsSpace(Char(s, 1)) THEN lstrip(SubSeq(s, 2, Len(s))) ELSE s

RECURSIVE rstrip(_)
rstrip(s) ==
  IF s # "" /\ IsSpace(Char(s, Len(s))) THEN rstrip(SubSeq(s, 1, Len(s) - 1)) ELSE s

strip(s) == rstrip(lstrip(s))

\* str.split(): the maximal runs of non-whitespace characters, in order
RECURSIVE SplitFrom(_, _, _)
SplitFrom(s, i, cur) ==
  IF i > Len(s) THEN (IF cur = "" THEN <<>> ELSE <<cur>>)
  ELSE IF IsSpace(Char(s, i))
       THEN (IF cur = "" THEN <<>> ELSE <<cur>>) \o SplitFrom(s, i + 1, "")
       ELSE SplitFrom(s, i + 1, cur \o Char(s, i))

split(s) == SplitFrom(s, 1, "")

AllDigits(s) == \A i \in 1..Len(s) : IsDigit(Char(s, i))

RECURSIVE DigitsValue(_)
DigitsValue(s) ==
  IF s = "" THEN 0 ELSE 10 * DigitsValue(SubSeq(s, 1, Len(s) - 1)) + DigitVal(Char(s, Len(s)))

\* int(s) raises ValueError unless s is a non-empty string of digits (the only
\* strings the extractors hand to it are regex groups, without sign or blanks)
IntRaises(s) == s = "" \/ ~AllDigits(s)

\* int(s): the decimal value of s (0 stands in where int raises)
int(s) == IF IntRaises(s) THEN 0 ELSE DigitsValue(s)

\* ------------------------------------------------------------ regex pieces

\* s has the literal lit at position i
LitAt(s, i, lit) == i >= 1 /\ i + Len(lit) - 1 <= Len(s) /\ SubSeq(s, i, i + Len(lit) - 1) = lit

\* s has n digits at position i
DigitsAt(s, i, n) ==
  i >= 1 /\ i + n - 1 <= Len(s) /\ \A k \in i..(i + n - 1) : IsDigit(Char(s, k))

\* \b just before position i (i = Len(s) + 1 is the end of the text)
WordBoundary(s, i) ==
  LET before == i > 1 /\ IsWord(Char(s, i - 1))
      after == i <= Len(s) /\ IsWord(Char(s, i))
  IN before # after

\* ------------------------------------------------------------ _parse_temp_pair

\* (M?\d{2}) at position i: the group's text, or None
TempOperandAt(s, i) ==
  IF LitAt(s, i, "M") /\ DigitsAt(s, i + 1, 2) THEN Some(SubSeq(s, i, i + 2))
  ELSE IF DigitsAt(s, i, 2) THEN Some(SubSeq(s, i, i + 1))
  ELSE None

\* \b(M?\d{2})/(M?\d{2})\b at position i: the two groups, or None
TempAt(s, i) ==
  LET g1 == TempOperandAt(s, i)
      j == i + Len(g1[1]) + 1
      g2 == TempOperandAt(s, j)
  IN IF /\ WordBoundary(s, i)
        /\ g1 # None
        /\ LitAt(s, j - 1, "/")
        /\ g2 # None
        /\ WordBoundary(s, j + Len(g2[1]))
     THEN Some([temp_str |-> g1[1], dew_str |-> g2[1]])
     ELSE None

\* re.search: the leftmost position from i on where the pattern matches, 0 if none
RECURSIVE TempSearch(_, _)
TempSearch(s, i) ==
  IF i > Len(s) THEN 0 ELSE IF TempAt(s, i) # None THEN i ELSE TempSearch(s, i + 1)

startswith(s, prefix) == LitAt(s, 1, prefix)

\* to_value as int(s) on the whole group: the M prefix reaches int
to_value_raises_whole(s) == IntRaises(s)

to_value_raises(s) == IF startswith(s, "M") THEN IntRaises(SubSeq(s, 2, Len(s))) ELSE IntRaises(s)

\* to_value without the negation of an M-prefixed value
to_value_unsigned(s) == IF startswith(s, "M") THEN int(SubSeq(s, 2, Len(s))) ELSE int(s)

to_value(s) == IF startswith(s, "M") THEN 0 - int(SubSeq(s, 2, Len(s))) ELSE int(s)

parse_temp_pair(metar_text) ==
  LET at == TempSearch(metar_text, 1)
      temp_match == TempAt(metar_text, at)[1]
  IN IF at = 0
     THEN [raised |-> FALSE, temperature |-> None, dewpoint |-> None]
     ELSE IF to_value_raises(temp_match.temp_str) \/ to_value_raises(temp_match.dew_str)
     THEN [raised |-> TRUE, temperature |-> None, dewpoint |-> None]
     ELSE [raised |-> FALSE,
           temperature |-> Some(to_value(temp_match.temp_str)),
           dewpoint |-> Some(to_value(temp_match.dew_str))]

\* ------------------------------------------------------------ _parse_wind

\* (\d{3}|VRB) at position i: the group's text, or None
WindDirAt(s, i) ==
  IF DigitsAt(s, i, 3) \/ LitAt(s, i, "VRB") THEN Some(SubSeq(s, i, i + 2)) ELSE None

\* (?:G(\d{2,3}))?KT at position j: Some(group 3), group 3 being None when the
\* gust part is absent; None when there is no match.  The alternatives are tried
\* in the regex engine's order: the gust part first, its longer digit run first.
WindTailAt(s, j) ==
  IF LitAt(s, j, "G") /\ DigitsAt(s, j + 1, 3) /\ LitAt(s, j + 4, "KT")
  THEN Some(Some(SubSeq(s, j + 1, j + 3)))
  ELSE IF LitAt(s, j, "G") /\ DigitsAt(s, j + 1, 2) /\ LitAt(s, j + 3, "KT")
  THEN Some(Some(SubSeq(s, j + 1, j + 2)))
  ELSE IF LitAt(s, j, "KT") THEN Some(None)
  ELSE None

\* (\d{3}|VRB)(\d{2,3})(?:G(\d{2,3}))?KT at position i: the groups, or None
WindAt(s, i) ==
  IF WindDirAt(s, i) = None THEN None
  ELSE IF DigitsAt(s, i + 3, 3) /\ WindTailAt(s, i + 6) # None
  THEN Some([dir_str |-> WindDirAt(s, i)[1], speed_str |-> SubSeq(s, i + 3, i + 5),
             gust_str |-> WindTailAt(s, i + 6)[1]])
  ELSE IF DigitsAt(s, i + 3, 2) /\ WindTailAt(s, i + 5) # None
  THEN Some([dir_str |-> WindDirAt(s, i)[1], speed_str |-> SubSeq(s, i + 3, i + 4),
             gust_str |-> WindTailAt(s, i + 5)[1]])
  ELSE None

\* re.search taking the rightmost match instead of the leftmost
WindSearchLast(s, i) ==
  LET hits == {k \in i..Len(s) : WindAt(s, k) # None}
  IN IF hits = {} THEN 0 ELSE CHOOSE k \in hits : \A h \in hits : h <= k

RECURSIVE WindSearch(_, _)
WindSearch(s, i) ==
  IF i > Len(s) THEN 0 ELSE IF WindAt(s, i) # None THEN i ELSE WindSearch(s, i + 1)

\* _parse_wind with a numeric placeholder, -1, for a variable direction
parse_wind_placeholder(metar_text) ==
  LET at == WindSearch(metar_text, 1)
      wind_match == WindAt(metar_text, at)[1]
  IN IF at = 0
     THEN [raised |-> FALSE, wind_direction |-> None, wind_speed |-> None, wind_gust |-> None]
     ELSE [raised |-> FALSE,
           wind_direction |-> IF wind_match.dir_str = "VRB" THEN Some(0 - 1)
                              ELSE Some(int(wind_match.dir_str)),
           wind_speed |-> Some(int(wind_match.speed_str)),
           wind_gust |-> IF wind_match.gust_str # None
                         THEN Some(int(wind_match.gust_str[1])) ELSE None]

parse_wind(metar_text) ==
  LET at == WindSearch(metar_text, 1)
      wind_match == WindAt(metar_text, at)[1]
      dir_str == wind_match.dir_str
      speed_str == wind_match.speed_str
      gust_str == wind_match.gust_str
  IN IF at = 0
     THEN [raised |-> FALSE, wind_direction |-> None, wind_speed |-> None, wind_gust |-> None]
     ELSE IF \/ dir_str # "VRB" /\ IntRaises(dir_str)
             \/ IntRaises(speed_str)
             \/ gust_str # None /\ gust_str[1] # "" /\ IntRaises(gust_str[1])
     THEN [raised |-> TRUE, wind_direction |-> None, wind_speed |-> None, wind_gust |-> None]
     ELSE [raised |-> FALSE,
           wind_direction |-> IF dir_str = "VRB" THEN None ELSE Some(int(dir_str)),
           wind_speed |-> Some(int(speed_str)),
           wind_gust |-> IF gust_str # None /\ gust_str[1] # ""
                         THEN Some(int(gust_str[1])) ELSE None]

\* ------------------------------------------------------------ _parse_visibility

\* (\d{4}) without the word boundaries
VisAtLoose(s, i) == IF DigitsAt(s, i, 4) THEN Some(SubSeq(s, i, i + 3)) ELSE None

\* \b(\d{4})\b at position i
VisAt(s, i) ==
  IF WordBoundary(s, i) /\ DigitsAt(s, i, 4) /\ WordBoundary(s, i + 4)
  THEN Some(SubSeq(s, i, i + 3)) ELSE None

RECURSIVE VisSearch(_, _)
VisSearch(s, i) ==
  IF i > Len(s) THEN 0 ELSE IF VisAt(s, i) # None THEN i ELSE VisSearch(s, i + 1)

parse_visibility(metar_text) ==
  LET at == VisSearch(metar_text, 1)
      vis_match == VisAt(metar_text, at)[1]
  IN IF at = 0 THEN [raised |-> FALSE, visibility |-> None]
     ELSE IF IntRaises(vis_match) THEN [raised |-> TRUE, visibility |-> None]
     ELSE [raised |-> FALSE, visibility |-> Some(int(vis_match))]

\* ------------------------------------------------------------ _parse_station_and_time

\* re.match(r'^[A-Z]{4}$', tok) on a token, which holds no whitespace
IsStationToken(tok) == Len(tok) = 4 /\ \A k \in 1..4 : Char(tok, k) \in UpperLetters

\* re.match(r'^\d{6}Z$', tok)
IsObsTimeToken(tok) == Len(tok) = 7 /\ DigitsAt(tok, 1, 6) /\ Char(tok, 7) = "Z"

\* the loop over enumerate(tokens) from index i on (1-based), station being the
\* value assigned so far: every marker followed by a 4-letter token assigns, and
\* the loop goes on to the next token (continue)
RECURSIVE MarkerLoop(_, _, _)
MarkerLoop(tokens, i, station) ==
  IF i > Len(tokens) THEN station
  ELSE IF tokens[i] \in {"METAR", "SPECI"}
       THEN IF i + 1 <= Len(tokens) /\ IsStationToken(tokens[i + 1])
            THEN MarkerLoop(tokens, i + 1, Some(tokens[i + 1]))
            ELSE MarkerLoop(tokens, i + 1, station)
       ELSE MarkerLoop(tokens, i + 1, station)

\* the second loop: the first 4-letter token from index i on, or None
RECURSIVE FirstStationToken(_, _)
FirstStationToken(tokens, i) ==
  IF i > Len(tokens) THEN None
  ELSE IF IsStationToken(tokens[i]) THEN Some(tokens[i])
  ELSE FirstStationToken(tokens, i + 1)

\* the third loop: the first observation-time token from index i on, or None
RECURSIVE FirstObsTimeToken(_, _)
FirstObsTimeToken(tokens, i) ==
  IF i > Len(tokens) THEN None
  ELSE IF IsObsTimeToken(tokens[i]) THEN Some(tokens[i])
  ELSE FirstObsTimeToken(tokens, i + 1)

parse_station_and_time(metar_text) ==
  LET tokens == split(strip(metar_text))
      marked == MarkerLoop(tokens, 1, None)
  IN [station |-> IF marked = None THEN FirstStationToken(tokens, 1) ELSE marked,
      obs_time |-> FirstObsTimeToken(tokens, 1)]

\* ------------------------------------------------------------ _parse_clouds

CloudAmounts == {"FEW", "SCT", "BKN", "OVC"}

\* \b(FEW|SCT|BKN|OVC)(\d{3})\b at position i: the pair of groups, or None
CloudAt(s, i) ==
  IF /\ WordBoundary(s, i)
     /\ i + 2 <= Len(s) /\ SubSeq(s, i, i + 2) \in CloudAmounts
     /\ DigitsAt(s, i + 3, 3)
     /\ WordBoundary(s, i + 6)
  THEN Some(<<SubSeq(s, i, i + 2), SubSeq(s, i + 3, i + 5)>>)
  ELSE None

\* re.findall: the non-overlapping matches from position i on, left to right
RECURSIVE CloudFindall(_, _)
CloudFindall(s, i) ==
  IF i > Len(s) THEN <<>>
  ELSE IF CloudAt(s, i) # None THEN <<CloudAt(s, i)[1]>> \o CloudFindall(s, i + 6)
  ELSE CloudFindall(s, i + 1)

\* int(n / d) in place of round: the fraction dropped
round_down(n, d) == n \div d

\* round(n / d) for n >= 0, d > 0: to the nearest integer, a tie to the even one
round(n, d) ==
  LET q == n \div d
      r2 == 2 * (n % d)
  IN IF r2 < d THEN q
     ELSE IF r2 > d THEN q + 1
     ELSE IF q % 2 = 0 THEN q ELSE q + 1

\* one layer: height_code * 100 feet, and round(height_ft * 0.3048) metres.  The
\* product is a multiple of 1/625, 0.02 or more away from any tie, far more than
\* the double's error, so the float's rounding is the exact quotient's.
CloudLayer(amount, h_str) ==
  LET height_code == int(h_str)
      height_ft == height_code * 100
      height_m == round(height_ft * 3048, 10000)
  IN [amount |-> amount, height_ft |-> height_ft, height_m |-> height_m]

\* the loop over the matches without its break: every layer is kept
RECURSIVE CloudLoopNoBreak(_, _, _)
CloudLoopNoBreak(found, i, clouds) ==
  IF i > Len(found) THEN clouds
  ELSE CloudLoopNoBreak(found, i + 1, Append(clouds, CloudLayer(found[i][1], found[i][2])))

\* the loop over the matches from index i on: append, and break once clouds
\* holds three layers
RECURSIVE CloudLoop(_, _, _)
CloudLoop(found, i, clouds) ==
  IF i > Len(found) THEN clouds
  ELSE LET appended == Append(clouds, CloudLayer(found[i][1], found[i][2]))
       IN IF Len(appended) >= 3 THEN appended ELSE CloudLoop(found, i + 1, appended)

parse_clouds(metar_text) ==
  LET found == CloudFindall(metar_text, 1)
  IN [raised |-> \E k \in 1..Len(found) : k <= 3 /\ IntRaises(found[k][2]),
      clouds |-> CloudLoop(found, 1, <<>>)]

\* ------------------------------------------------------------ _parse_weather_and_rain

\* the table with TS flagged as precipitation, without an intensity
WEATHER_PATTERNS_TS_RAIN == <<
  [lit |-> "+RA",   bounded |-> FALSE, description |-> "da yu",        is_rain |-> TRUE,  r_type |-> Some("da yu")],
  [lit |-> "-RA",   bounded |-> FALSE, description |-> "xiao yu",      is_rain |-> TRUE,  r_type |-> Some("xiao yu")],
  [lit |-> "RA",    bounded |-> TRUE,  description |-> "zhong yu",     is_rain |-> TRUE,  r_type |-> Some("zhong yu")],
  [lit |-> "+SHRA", bounded |-> FALSE, description |-> "da zhen yu",   is_rain |-> TRUE,  r_type |-> Some("da yu")],
  [lit |-> "-SHRA", bounded |-> FALSE, description |-> "xiao zhen yu", is_rain |-> TRUE,  r_type |-> Some("xiao yu")],
  [lit |-> "SHRA",  bounded |-> TRUE,  description |-> "zhong zhen yu", is_rain |-> TRUE, r_type |-> Some("zhong yu")],
  [lit |-> "TSRA",  bounded |-> FALSE, description |-> "lei yu",       is_rain |-> TRUE,  r_type |-> Some("lei zhen yu")],
  [lit |-> "TS",    bounded |-> TRUE,  description |-> "lei bao",      is_rain |-> TRUE,  r_type |-> None],
  [lit |-> "DZ",    bounded |-> TRUE,  description |-> "mao mao yu",   is_rain |-> TRUE,  r_type |-> Some("xiao yu")],
  [lit |-> "FG",    bounded |-> TRUE,  description |-> "wu",           is_rain |-> FALSE, r_type |-> None],
  [lit |-> "BR",    bounded |-> TRUE,  description |-> "bo wu",        is_rain |-> FALSE, r_type |-> None],
  [lit |-> "HZ",    bounded |-> TRUE,  description |-> "mai",          is_rain |-> FALSE, r_type |-> None] >>

\* WEATHER_PATTERNS in the dict's insertion order.  lit is the code the pattern
\* spells; bounded says whether the pattern has \b on both sides.  The labels
\* are the source's, transliterated: da yu = heavy rain, xiao yu = light rain,
\* zhong yu = moderate rain, da/xiao/zhong zhen yu = heavy/light/moderate
\* showers, lei yu = thunderstorm with rain, lei zhen yu = thundershower,
\* lei bao = thunderstorm, mao mao yu = drizzle, wu = fog, bo wu = mist,
\* mai = haze.
WEATHER_PATTERNS == <<
  [lit |-> "+RA",   bounded |-> FALSE, description |-> "da yu",        is_rain |-> TRUE,  r_type |-> Some("da yu")],
  [lit |-> "-RA",   bounded |-> FALSE, description |-> "xiao yu",      is_rain |-> TRUE,  r_type |-> Some("xiao yu")],
  [lit |-> "RA",    bounded |-> TRUE,  description |-> "zhong yu",     is_rain |-> TRUE,  r_type |-> Some("zhong yu")],
  [lit |-> "+SHRA", bounded |-> FALSE, description |-> "da zhen yu",   is_rain |-> TRUE,  r_type |-> Some("da yu")],
  [lit |-> "-SHRA", bounded |-> FALSE, description |-> "xiao zhen yu", is_rain |-> TRUE,  r_type |-> Some("xiao yu")],
  [lit |-> "SHRA",  bounded |-> TRUE,  description |-> "zhong zhen yu", is_rain |-> TRUE, r_type |-> Some("zhong yu")],
  [lit |-> "TSRA",  bounded |-> FALSE, description |-> "lei yu",       is_rain |-> TRUE,  r_type |-> Some("lei zhen yu")],
  [lit |-> "TS",    bounded |-> TRUE,  description |-> "lei bao",      is_rain |-> FALSE, r_type |-> None],
  [lit |-> "DZ",    bounded |-> TRUE,  description |-> "mao mao yu",   is_rain |-> TRUE,  r_type |-> Some("xiao yu")],
  [lit |-> "FG",    bounded |-> TRUE,  description |-> "wu",           is_rain |-> FALSE, r_type |-> None],
  [lit |-> "BR",    bounded |-> TRUE,  description |-> "bo wu",        is_rain |-> FALSE, r_type |-> None],
  [lit |-> "HZ",    bounded |-> TRUE,  description |-> "mai",          is_rain |-> FALSE, r_type |-> None] >>

\* the pattern of a table entry at position i
PatternAt(entry, s, i) ==
  /\ LitAt(s, i, entry.lit)
  /\ entry.bounded => WordBoundary(s, i) /\ WordBoundary(s, i + Len(entry.lit))

\* re.search(pattern, metar_text) finds a match
PatternSearch(entry, s) == \E i \in 1..Len(s) : PatternAt(entry, s, i)

\* the loop with the rain type overwritten by every matching precipitation entry
RECURSIVE WeatherLoopLastWins(_, _, _)
WeatherLoopLastWins(metar_text, k, acc) ==
  IF k > Len(WEATHER_PATTERNS) THEN acc
  ELSE LET entry == WEATHER_PATTERNS[k]
       IN IF PatternSearch(entry, metar_text)
          THEN WeatherLoopLastWins(metar_text, k + 1,
                 [weather_desc |-> Append(acc.weather_desc, entry.description),
                  is_raining |-> acc.is_raining \/ entry.is_rain,
                  rain_type |-> IF entry.is_rain /\ entry.r_type # None
                                THEN entry.r_type ELSE acc.rain_type])
          ELSE WeatherLoopLastWins(metar_text, k + 1, acc)

\* the loop leaving at its first matching entry
RECURSIVE WeatherLoopFirstOnly(_, _, _)
WeatherLoopFirstOnly(metar_text, k, acc) ==
  IF k > Len(WEATHER_PATTERNS) THEN acc
  ELSE LET entry == WEATHER_PATTERNS[k]
       IN IF PatternSearch(entry, metar_text)
          THEN [weather_desc |-> Append(acc.weather_desc, entry.description),
                is_raining |-> acc.is_raining \/ entry.is_rain,
                rain_type |-> IF entry.is_rain /\ acc.rain_type = None /\ entry.r_type # None
                              THEN entry.r_type ELSE acc.rain_type]
          ELSE WeatherLoopFirstOnly(metar_text, k + 1, acc)

\* the loop over WEATHER_PATTERNS.items() from entry k on
RECURSIVE WeatherLoop(_, _, _)
WeatherLoop(metar_text, k, acc) ==
  IF k > Len(WEATHER_PATTERNS) THEN acc
  ELSE LET entry == WEATHER_PATTERNS[k]
       IN IF PatternSearch(entry, metar_text)
          THEN WeatherLoop(metar_text, k + 1,
                 [weather_desc |-> Append(acc.weather_desc, entry.description),
                  is_raining |-> acc.is_raining \/ entry.is_rain,
                  rain_type |-> IF entry.is_rain /\ acc.rain_type = None /\ entry.r_type # None
                                THEN entry.r_type ELSE acc.rain_type])
          ELSE WeatherLoop(metar_text, k + 1, acc)

parse_weather_and_rain(metar_text) ==
  WeatherLoop(metar_text, 1, [weather_desc |-> <<>>, is_raining |-> FALSE, rain_type |-> None])

\* ------------------------------------------------------------ parse_metar

\* The result dictionary, without its timestamp (datetime.now(), which no other
\* field is derived from).  raised says that an extractor raised instead.
parse_metar(metar_text) ==
  LET txt == upper(strip(metar_text))
      st == parse_station_and_time(txt)
      tp == parse_temp_pair(txt)
      wd == parse_wind(txt)
      vs == parse_visibility(txt)
      cl == parse_clouds(txt)
      wx == parse_weather_and_rain(txt)
  IN [raised |-> tp.raised \/ wd.raised \/ vs.raised \/ cl.raised,
      raw |-> strip(metar_text),
      station |-> st.station,
      obs_time |-> st.obs_time,
      temperature |-> tp.temperature,
      dewpoint |-> tp.dewpoint,
      wind_direction |-> wd.wind_direction,
      wind_speed |-> wd.wind_speed,
      wind_gust |-> wd.wind_gust,
      visibility |-> vs.visibility,
      weather |-> wx.weather_desc,
      is_raining |-> wx.is_raining,
      rain_type |-> wx.rain_type,
      clouds |-> cl.clouds]

\* ------------------------------------------------------------ insert_metar

DigitChars == "0123456789"
DigitChar(d) == Char(DigitChars, d + 1)

\* str(n) of an integer
RECURSIVE str(_)
str(n) ==
  IF n < 0 THEN "-" \o str(0 - n)
  ELSE IF n < 10 THEN DigitChar(n)
  ELSE str(n \div 10) \o DigitChar(n % 10)

\* ", ".join(items) from index i on
RECURSIVE join(_, _)
join(items, i) ==
  IF i > Len(items) THEN ""
  ELSE IF i = Len(items) THEN items[i]
  ELSE items[i] \o ", " \o join(items, i + 1)

\* get_cloud(i), i counted from 0: (amount, height_m) of the layer, or (None, None)
get_cloud(clouds, i) ==
  IF i < Len(clouds) THEN <<Some(clouds[i + 1].amount), Some(clouds[i + 1].height_m)>>
  ELSE <<None, None>>

\* the row insert_metar writes for a record (id and created_at are the
\* database's; a REAL column keeps the number it is given)
insert_metar(r) ==
  [obs_time |-> r.obs_time,
   station |-> r.station,
   raw |-> r.raw,
   wind_dir |-> IF r.wind_direction # None THEN Some(str(r.wind_direction[1])) ELSE None,
   wind_speed |-> r.wind_speed,
   wind_gust |-> r.wind_gust,
   visibility |-> r.visibility,
   temp |-> r.temperature,
   dewpoint |-> r.dewpoint,
   weather |-> IF r.weather # <<>> THEN Some(join(r.weather, 1)) ELSE None,
   rain_flag |-> IF r.is_raining THEN 1 ELSE 0,
   rain_level_cn |-> r.rain_type,
   cloud_1_amount |-> get_cloud(r.clouds, 0)[1],
   cloud_1_height_m |-> get_cloud(r.clouds, 0)[2],
   cloud_2_amount |-> get_cloud(r.clouds, 1)[1],
   cloud_2_height_m |-> get_cloud(r.clouds, 1)[2],
   cloud_3_amount |-> get_cloud(r.clouds, 2)[1],
   cloud_3_height_m |-> get_cloud(r.clouds, 2)[2]]

\* ------------------------------------------------------------ the decoder's callers

\* Pieces of report text an operator may type, one set per extractor under
\* study; a piece that ends in a blank closes its token, one that does not is
\* glued to the next.
MaxFrags == 4
MaxWeatherFrags == 3
MaxReportFrags == 3

WindFrags == {"27015KT ", "36010G25KT ", "99915G125KT", "vrb03g15kt ", "1", "G30KT "}
TempFrags == {"28/24", " ", "M02/M05 ", "M00/00 ", "1", "M", "05/m10 "}
VisFrags == {"4000", "9999 ", " ", "1008/1010 ", "-0800 ", "Q", "1"}
StationFrags == {"METAR ", "SPECI ", "VVCS ", "VVTS ", "metar ", "201200Z ", "X"}
CloudFrags == {"FEW020 ", "SCT025 ", "BKN999 ", "ovc001 ", "X", "SCT0300 ", "OVC100/"}
WeatherFrags == {"+RA ", "-RA ", "RA ", "+SHRA ", "-SHRA ", "SHRA ", "TSRA ", "TS ", "DZ ",
                 "FG ", "BR ", "HZ ", "x"}
ReportFrags == {"METAR ", "VVCS ", "201200Z ", "27015G25KT ", "4000 ", "M02/M05 ", "SCT020 ",
                "+SHRA ", "Q1008 ", "\t"}

Init == text = "" /\ typed = 0 /\ pc = "input" /\ record = None /\ metars = <<>>

\* the operator types (or pastes) one more piece of the report text
Type(Frags, max) ==
  /\ pc = "input"
  /\ typed < max
  /\ \E f \in Frags : text' = text \o f
  /\ typed' = typed + 1
  /\ UNCHANGED <<pc, record, metars>>

\* record = parse_metar(raw)
Decode ==
  /\ pc = "input"
  /\ record' = Some(parse_metar(text))
  /\ pc' = "done"
  /\ UNCHANGED <<text, typed, metars>>

\* the button of page_metar: a blank text is refused with a warning, any other
\* is parsed and the record inserted into the metars table
Submit ==
  /\ pc = "input"
  /\ IF strip(text) = ""
     THEN pc' = "warned" /\ UNCHANGED <<record, metars>>
     ELSE /\ record' = Some(parse_metar(text))
          /\ metars' = Append(metars, insert_metar(parse_metar(text)))
          /\ pc' = "done"
  /\ UNCHANGED <<text, typed>>

\* the largest height code \d{3} can spell
MaxHeightCode == 999

\* the three digits of a height code
HeightCode(h) == DigitChar(h \div 100) \o DigitChar((h \div 10) % 10) \o DigitChar(h % 10)

\* the operator types one cloud code, of any amount and any height code
TypeCode ==
  /\ pc = "input"
  /\ typed = 0
  /\ \E a \in CloudAmounts, h \in 0..MaxHeightCode : text' = text \o a \o HeightCode(h)
  /\ typed' = typed + 1
  /\ UNCHANGED <<pc, record, metars>>

TypeWind == Type(WindFrags, MaxFrags)
TypeTemp == Type(TempFrags, MaxFrags)
TypeVis == Type(VisFrags, MaxFrags)
TypeStation == Type(StationFrags, MaxFrags)
TypeCloud == Type(CloudFrags, MaxFrags)
TypeWeather == Type(WeatherFrags, MaxWeatherFrags)
TypeReport == Type(ReportFrags, MaxReportFrags)

NextWind == TypeWind \/ Decode
NextTemp == TypeTemp \/ Decode
NextVis == TypeVis \/ Decode
NextStation == TypeStation \/ Decode
NextCloud == TypeCloud \/ Decode
NextWeather == TypeWeather \/ Decode
Next == TypeReport \/ Decode
NextStore == TypeWeather \/ Submit
NextHeight == TypeCode \/ Decode

SpecWind == Init /\ [][NextWind]_vars
SpecTemp == Init /\ [][NextTemp]_vars
SpecVis == Init /\ [][NextVis]_vars
SpecStation == Init /\ [][NextStation]_vars
SpecCloud == Init /\ [][NextCloud]_vars
SpecWeather == Init /\ [][NextWeather]_vars
Spec == Init /\ [][Next]_vars
SpecStore == Init /\ [][NextStore]_vars
SpecHeight == Init /\ [][NextHeight]_vars

\* the decoded record, once Decode has run
Done == pc = "done"
rec == record[1]
\* the text the extractors read
Normalized == upper(strip(text))

\* ------------------------------------------------------------ properties

Min(a, b) == IF a <= b THEN a ELSE b

\* the k-th smallest element of a set of integers
Kth(P, k) == CHOOSE i \in P : Cardinality({j \in P : j < i}) = k - 1

\* no word character just before position i / at position i
OpenBefore(s, i) == i = 1 \/ ~IsWord(Char(s, i - 1))
OpenAt(s, i) == i > Len(s) \/ ~IsWord(Char(s, i))

\* a wind group at position i with sl speed digits and gl gust digits (0: no gust)
IsWindGroup(s, i, sl, gl) ==
  /\ DigitsAt(s, i, 3) \/ LitAt(s, i, "VRB")
  /\ DigitsAt(s, i + 3, sl)
  /\ IF gl = 0 THEN LitAt(s, i + 3 + sl, "KT")
     ELSE /\ LitAt(s, i + 3 + sl, "G")
          /\ DigitsAt(s, i + 4 + sl, gl)
          /\ LitAt(s, i + 4 + sl + gl, "KT")

WindGroups(s) ==
  {g \in (1..Len(s)) \X {2, 3} \X {0, 2, 3} : IsWindGroup(s, g[1], g[2], g[3])}

FirstWindGroups(s) ==
  LET W == WindGroups(s)
  IN {g \in W : \A h \in W : g[1] <= h[1]}

WindGroupDir(s, g) == SubSeq(s, g[1], g[1] + 2)

\* a 4-letter token or an observation-time token among the tokens
HasStationOrTime(s) ==
  \E k \in 1..Len(split(s)) : IsStationToken(split(s)[k]) \/ IsObsTimeToken(split(s)[k])

\* no extractor pattern matches anywhere in s
NoExtractorMatches(s) ==
  /\ ~HasStationOrTime(s)
  /\ \A i \in 1..Len(s) :
       /\ TempAt(s, i) = None
       /\ WindAt(s, i) = None
       /\ VisAt(s, i) = None
       /\ CloudAt(s, i) = None
       /\ \A k \in 1..Len(WEATHER_PATTERNS) : ~PatternAt(WEATHER_PATTERNS[k], s, i)

\* C1: parse_metar returns a record for every input text and never raises; when
\* no extractor pattern matches the text, every optional field is None, weather
\* and clouds are empty and is_raining is false.
C1_Total ==
  Done =>
    /\ ~rec.raised
    /\ NoExtractorMatches(Normalized) =>
         /\ rec.station = None /\ rec.obs_time = None
         /\ rec.temperature = None /\ rec.dewpoint = None
         /\ rec.wind_direction = None /\ rec.wind_speed = None /\ rec.wind_gust = None
         /\ rec.visibility = None /\ rec.rain_type = None
         /\ rec.weather = <<>> /\ rec.clouds = <<>>
         /\ rec.is_raining = FALSE

\* a text that is not empty and holds nothing meteorological has been decoded
C1_Witness == Done /\ Normalized # "" /\ NoExtractorMatches(Normalized) /\ ~rec.raised

\* C2: of the wind groups in the text, the first decides the wind fields: the
\* direction is its three digits as an integer (None for VRB), the speed its
\* speed digits, the gust its gust digits, None exactly when it has no gust part.
C2_FirstWindGroup ==
  Done =>
    LET s == Normalized
    IN \A g \in FirstWindGroups(s) :
      LET i == g[1]
      IN /\ rec.wind_direction =
              IF WindGroupDir(s, g) = "VRB" THEN None ELSE Some(DigitsValue(WindGroupDir(s, g)))
         /\ rec.wind_speed = Some(DigitsValue(SubSeq(s, i + 3, i + 2 + g[2])))
         /\ (rec.wind_gust = None) <=> (g[3] = 0)
         /\ g[3] # 0 =>
              rec.wind_gust = Some(DigitsValue(SubSeq(s, i + 4 + g[2], i + 3 + g[2] + g[3])))

\* a text with two wind groups, the first with a gust and the second with another
\* speed, has been decoded
C2_Witness ==
  /\ Done
  /\ \E g \in FirstWindGroups(Normalized) : \E h \in WindGroups(Normalized) :
       /\ g[3] # 0
       /\ h[1] > g[1] + 6
       /\ DigitsValue(SubSeq(Normalized, h[1] + 3, h[1] + 2 + h[2])) # rec.wind_speed[1]

\* C9 as stated: wind_direction is None if and only if the wind group used has
\* VRB as its direction.
C9_NoneIffVariable ==
  Done =>
    LET s == Normalized
    IN (rec.wind_direction = None) <=>
         \E g \in FirstWindGroups(s) : WindGroupDir(s, g) = "VRB"

\* C9 amended: wind_direction is None if and only if the text has no wind group
\* or the first wind group has VRB as its direction.
C9_NoneIffVariableOrMissing ==
  Done =>
    LET s == Normalized
        F == FirstWindGroups(s)
    IN (rec.wind_direction = None) <=>
         \/ F = {}
         \/ \E g \in F : WindGroupDir(s, g) = "VRB"

\* a text whose first wind group is variable and is followed by a group with a
\* numeric direction has been decoded
C9_Witness ==
  /\ Done
  /\ rec.wind_direction = None
  /\ rec.wind_speed # None
  /\ \E g \in FirstWindGroups(Normalized) : \E h \in WindGroups(Normalized) :
       WindGroupDir(Normalized, g) = "VRB" /\ WindGroupDir(Normalized, h) # "VRB"

\* C10 as stated: a wind_direction that is not None is an integer in 0..359, and
\* wind_speed and wind_gust, when not None, are non-negative integers.
C10_DirectionBelow360 ==
  Done =>
    /\ rec.wind_direction # None => rec.wind_direction[1] \in 0..359
    /\ rec.wind_speed # None => rec.wind_speed[1] \in Nat
    /\ rec.wind_gust # None => rec.wind_gust[1] \in Nat

\* C10 amended: a wind_direction that is not None is an integer in 0..999 (the
\* three digits as written, not validated against 359), and wind_speed and
\* wind_gust, when not None, are integers in 0..999.
C10_ThreeDigitRange ==
  Done =>
    /\ rec.wind_direction # None => rec.wind_direction[1] \in 0..999
    /\ rec.wind_speed # None => rec.wind_speed[1] \in 0..999
    /\ rec.wind_gust # None => rec.wind_gust[1] \in 0..999

\* a wind group with a direction above 359 and a gust has been decoded
C10_Witness ==
  /\ Done
  /\ rec.wind_direction # None /\ rec.wind_direction[1] > 359
  /\ rec.wind_speed # None
  /\ rec.wind_gust # None

\* the markers followed by a 4-letter token, by token index
StationMarkers(tokens) ==
  {i \in 1..(Len(tokens) - 1) : tokens[i] \in {"METAR", "SPECI"} /\ IsStationToken(tokens[i + 1])}

\* C3: when a METAR or SPECI token is followed by a token of four uppercase
\* letters, the station is the token after the first such marker; later markers
\* never change it.
C3_FirstMarkerWins ==
  Done =>
    LET tokens == split(Normalized)
        M == StationMarkers(tokens)
    IN M # {} => rec.station = Some(tokens[Kth(M, 1) + 1])

\* a cloud code at position i: an amount and exactly three digits, a word of its own
IsCloudCode(s, i) ==
  /\ OpenBefore(s, i)
  /\ \E a \in {"FEW", "SCT", "BKN", "OVC"} : LitAt(s, i, a)
  /\ DigitsAt(s, i + 3, 3)
  /\ OpenAt(s, i + 6)

CloudCodes(s) == {i \in 1..Len(s) : IsCloudCode(s, i)}

\* C4: clouds holds one entry per cloud code, in the order of the text, cut
\* after the third; each entry has the code's amount, height_ft = HHH * 100 and
\* height_m = height_ft * 0.3048 rounded to the nearest integer.
C4_CloudLayers ==
  Done =>
    LET s == Normalized
        P == CloudCodes(s)
    IN /\ Len(rec.clouds) = Min(3, Cardinality(P))
       /\ \A k \in 1..Len(rec.clouds) :
            LET i == Kth(P, k)
                h == DigitsValue(SubSeq(s, i + 3, i + 5))
            IN rec.clouds[k] = [amount |-> SubSeq(s, i, i + 2),
                                height_ft |-> h * 100,
                                height_m |-> (3048 * h + 50) \div 100]

\* a text with more than three cloud codes, of differing amounts, has been decoded
C4_Witness ==
  /\ Done
  /\ Cardinality(CloudCodes(Normalized)) > 3
  /\ Len(rec.clouds) = 3
  /\ rec.clouds[1].amount # rec.clouds[2].amount
  /\ rec.clouds[1].height_m > 0

\* a T/D group at position i whose operands are n1 and n2 characters long (2: two
\* digits, 3: M and two digits)
IsTempOperand(s, i, n) ==
  IF n = 2 THEN DigitsAt(s, i, 2) ELSE LitAt(s, i, "M") /\ DigitsAt(s, i + 1, 2)

IsTempGroup(s, i, n1, n2) ==
  /\ OpenBefore(s, i)
  /\ IsTempOperand(s, i, n1)
  /\ LitAt(s, i + n1, "/")
  /\ IsTempOperand(s, i + n1 + 1, n2)
  /\ OpenAt(s, i + n1 + 1 + n2)

TempGroups(s) == {g \in (1..Len(s)) \X {2, 3} \X {2, 3} : IsTempGroup(s, g[1], g[2], g[3])}

FirstTempGroups(s) ==
  LET T == TempGroups(s)
  IN {g \in T : \A h \in T : g[1] <= h[1]}

\* the value of an operand: its two digits, negated under an M
OperandValue(s, i, n) ==
  IF n = 3 THEN 0 - DigitsValue(SubSeq(s, i + 1, i + 2)) ELSE DigitsValue(SubSeq(s, i, i + 1))

\* C5: the first T/D group of the text decides temperature and dewpoint, each
\* decoded on its own: two digits are their value, M and two digits the negated
\* value, M00 is 0; later groups are ignored.
C5_FirstTempGroup ==
  Done =>
    \A g \in FirstTempGroups(Normalized) :
      /\ rec.temperature = Some(OperandValue(Normalized, g[1], g[2]))
      /\ rec.dewpoint = Some(OperandValue(Normalized, g[1] + g[2] + 1, g[3]))
      /\ LitAt(Normalized, g[1], "M00") => rec.temperature = Some(0)

\* a text whose first T/D group has a negative temperature and a dewpoint
\* without M, followed by a second group, has been decoded
C5_Witness ==
  /\ Done
  /\ \E g \in FirstTempGroups(Normalized) : \E h \in TempGroups(Normalized) :
       /\ h[1] > g[1]
       /\ g[2] = 3 /\ g[3] = 2
  /\ rec.temperature # None /\ rec.temperature[1] < 0
  /\ rec.dewpoint # None /\ rec.dewpoint[1] >= 0

\* the table entries, by index, whose pattern matches the text
Matching(s) == {k \in 1..Len(WEATHER_PATTERNS) : PatternSearch(WEATHER_PATTERNS[k], s)}

RainMatching(s) == {k \in Matching(s) : WEATHER_PATTERNS[k].is_rain}

\* the codes of the pattern table, in table order
TableCodes == [k \in 1..Len(WEATHER_PATTERNS) |-> WEATHER_PATTERNS[k].lit]

\* C6: rain_type is the intensity of the first precipitation entry, in the table
\* order +RA, -RA, RA, +SHRA, -SHRA, SHRA, TSRA, TS, DZ, FG, BR, HZ, that matches
\* the text, wherever the codes stand in the text; is_raining is true exactly
\* when a precipitation entry matches; +RA, RA and TSRA together give heavy.
C6_FirstRainEntry ==
  Done =>
    LET R == RainMatching(Normalized)
    IN /\ TableCodes = <<"+RA", "-RA", "RA", "+SHRA", "-SHRA", "SHRA", "TSRA", "TS", "DZ",
                         "FG", "BR", "HZ">>
       /\ rec.is_raining <=> R # {}
       /\ R # {} => rec.rain_type = WEATHER_PATTERNS[Kth(R, 1)].r_type
       /\ {1, 3, 7} \subseteq R => rec.rain_type = Some("da yu") /\ rec.is_raining

\* a text with TSRA in front of +RA and RA has been decoded
C6_Witness ==
  /\ Done
  /\ LitAt(Normalized, 1, "TSRA")
  /\ {1, 3, 7} \subseteq RainMatching(Normalized)
  /\ rec.rain_type = Some("da yu")

\* how many times lit stands in s
Occurrences(s, lit) == Cardinality({i \in 1..Len(s) : LitAt(s, i, lit)})

\* C7: weather holds exactly one label per table entry whose pattern matches the
\* text, none for the others, in table order.
C7_LabelsInTableOrder ==
  Done =>
    LET M == Matching(Normalized)
    IN /\ Len(rec.weather) = Cardinality(M)
       /\ \A j \in 1..Len(rec.weather) : rec.weather[j] = WEATHER_PATTERNS[Kth(M, j)].description

\* a text with HZ in front of +RA, and +RA twice, has been decoded
C7_Witness ==
  /\ Done
  /\ LitAt(Normalized, 1, "HZ")
  /\ Occurrences(Normalized, "+RA") = 2
  /\ rec.weather = <<"da yu", "zhong yu", "mai">>

\* the first whitespace-delimited token made of exactly four digits, or None
FirstFourDigitToken(s) ==
  LET tokens == split(s)
      P == {k \in 1..Len(tokens) : Len(tokens[k]) = 4 /\ AllDigits(tokens[k])}
  IN IF P = {} THEN None ELSE Some(tokens[Kth(P, 1)])

\* C8 as stated: visibility is the value of the first whitespace-delimited token
\* of exactly four digits, None without one; four digits inside a larger token
\* are not taken.
C8_FirstFourDigitToken ==
  Done =>
    LET tok == FirstFourDigitToken(Normalized)
    IN rec.visibility = IF tok = None THEN None ELSE Some(DigitsValue(tok[1]))

\* the runs of exactly four digits with no letter, digit or underscore next to them
FourDigitWords(s) == {i \in 1..Len(s) : OpenBefore(s, i) /\ DigitsAt(s, i, 4) /\ OpenAt(s, i + 4)}

\* C8 amended: visibility is the value of the first run of exactly four digits
\* that has no letter, digit or underscore directly before or after it (blanks,
\* '/', '-' and '+' all delimit it), None without one.
C8_FirstFourDigitWord ==
  Done =>
    LET P == FourDigitWords(Normalized)
    IN rec.visibility =
         IF P = {} THEN None ELSE Some(DigitsValue(SubSeq(Normalized, Kth(P, 1), Kth(P, 1) + 3)))

\* a text whose first four-digit run is part of a larger token, and which holds a
\* four-digit token further on, has been decoded
C8_Witness ==
  /\ Done
  /\ FirstFourDigitToken(Normalized) # None
  /\ rec.visibility # None
  /\ rec.visibility # Some(DigitsValue(FirstFourDigitToken(Normalized)[1]))

\* C11: rain_type is not None exactly when is_raining is true, every
\* precipitation entry of the table carrying an intensity and no other entry
\* carrying one; so a stored row never has a rain flag without a rain level, nor
\* a rain level without a rain flag.
C11_RainLevelIffRainFlag ==
  /\ \A k \in 1..Len(WEATHER_PATTERNS) :
       WEATHER_PATTERNS[k].is_rain <=> WEATHER_PATTERNS[k].r_type # None
  /\ Done => ((rec.rain_type # None) <=> rec.is_raining)
  /\ \A j \in 1..Len(metars) : (metars[j].rain_flag = 1) <=> (metars[j].rain_level_cn # None)

\* a report with a thunderstorm and a precipitation code has been stored, with
\* its rain flag and its rain level
C11_Witness ==
  /\ Done
  /\ Len(metars) = 1
  /\ PatternSearch(WEATHER_PATTERNS[8], Normalized)
  /\ metars[1].rain_flag = 1
  /\ metars[1].rain_level_cn # None
  /\ metars[1].rain_level_cn = rec.rain_type

\* n / d, n >= 0 and d > 0, rounded to the nearest integer, a tie away from zero
RoundHalfAway(n, d) == (2 * n + d) \div (2 * d)

\* C12: for every height code h in 0..999, h * 30.48 never ends in exactly one
\* half (3048 * h mod 100 is never 50), so rounding a tie to even or away from
\* zero gives the same height_m, which is (3048 * h + 50) div 100; height_ft is
\* a multiple of 100 and at most 99900.
C12_HeightConversion ==
  Done =>
    \A k \in 1..Len(rec.clouds) :
      LET c == rec.clouds[k]
          h == DigitsValue(SubSeq(Normalized, 4, 6))
      IN /\ h \in 0..999
         /\ c.height_ft = h * 100
         /\ c.height_ft % 100 = 0 /\ c.height_ft <= 99900
         /\ (3048 * h) % 100 # 50
         /\ c.height_m = RoundHalfAway(3048 * h, 100)
         /\ c.height_m = (3048 * h + 50) \div 100

\* the highest cloud code, 999, has been decoded: 99900 ft, 30450 m
C12_Witness ==
  /\ Done
  /\ Len(rec.clouds) = 1
  /\ rec.clouds[1].height_ft = 99900
  /\ rec.clouds[1].height_m = 30450

====
